---- MODULE Spec2Model ----
(***************************************************************************)
(* osctl "processes" and "containers" commands                             *)
(* (cmd/osctl/cmd/processes.go, cmd/osctl/cmd/containers.go).              *)
(*                                                                         *)
(* Strings that the code takes apart (Executable, Args, Command, container *)
(* Id and PodId) are sequences of one-character strings; the empty string  *)
(* is << >>.  Strings the code only copies (host names, key identifiers,   *)
(* the value of --sort) are TLA+ strings.                                  *)
(***************************************************************************)
EXTENDS Integers, Sequences, FiniteSets, TLC

----------------------------------------------------------------------------
(* Bounds of the explored inputs.                                          *)

MaxEvents == 1
MaxProcs == 2
MaxGroups == 2
MaxVal == 2
MaxExeLen == 3
MaxArgsLen == 3
MaxContainers == 2
MaxTargets == 2

----------------------------------------------------------------------------
(* Strings.                                                                *)

Space == " "
Slash == "/"
Alphabet == {Space, Slash, "a", "b"}

\* all sequences over S of length 0..n
SeqUpTo(S, n) == UNION {[1..k -> S] : k \in 0..n}

Strings(n) == SeqUpTo(Alphabet, n)

\* unicode.IsSpace, restricted to the alphabet
IsSpace(c) == c = Space

RECURSIVE SkipSpace(_)
SkipSpace(str) ==
    IF str # <<>> /\ IsSpace(Head(str)) THEN SkipSpace(Tail(str)) ELSE str

RECURSIVE TakeToken(_)
TakeToken(str) ==
    IF str = <<>> \/ IsSpace(Head(str)) THEN <<>>
    ELSE <<Head(str)>> \o TakeToken(Tail(str))

\* strings.Fields: the maximal runs of non-space characters, in order
RECURSIVE Fields(_)
Fields(str) ==
    LET rest == SkipSpace(str)
        tok == TakeToken(rest)
    IN  IF rest = <<>> THEN <<>>
        ELSE <<tok>> \o Fields(SubSeq(rest, Len(tok) + 1, Len(rest)))

RECURSIVE StripTrailingSlashes(_)
StripTrailingSlashes(path) ==
    IF Len(path) > 0 /\ path[Len(path)] = Slash
    THEN StripTrailingSlashes(SubSeq(path, 1, Len(path) - 1))
    ELSE path

RECURSIVE AfterLastSlash(_)
AfterLastSlash(path) ==
    IF \E i \in 1..Len(path) : path[i] = Slash
    THEN AfterLastSlash(Tail(path))
    ELSE path

\* filepath.Base: "" gives ".", trailing separators are dropped, a path of
\* separators only gives "/", else the part after the last separator
Base(path) ==
    IF path = <<>> THEN <<".">>
    ELSE LET stripped == StripTrailingSlashes(path)
         IN  IF stripped = <<>> THEN <<Slash>> ELSE AfterLastSlash(stripped)

\* strings.Index: the 0-based offset of the first occurrence, -1 if none
Index(str, substr) ==
    LET hits == {i \in 0..(Len(str) - Len(substr)) :
                    SubSeq(str, i + 1, i + Len(substr)) = substr}
    IN  IF hits = {} THEN -1
        ELSE CHOOSE i \in hits : \A j \in hits : i <= j

\* strings.Replace(str, old, new, 1)
ReplaceFirst(str, old, new) ==
    LET i == Index(str, old)
    IN  IF i < 0 THEN str
        ELSE SubSeq(str, 1, i) \o new \o SubSeq(str, i + Len(old) + 1, Len(str))

----------------------------------------------------------------------------
(* Records of a reply.                                                     *)

\* resp.Metadata == nil
Nil == "nil"

\* addrFromPeer(&remotePeer)
defaultNode == "peer"

\* osapi.Process; State, Threads and VirtualMemory are copied into the row
\* unchanged and are left out
Process(pid, resmem, cputime, exe, arg, comm) ==
    [Pid |-> pid, ResidentMemory |-> resmem, CpuTime |-> cputime,
     Executable |-> exe, Args |-> arg, Command |-> comm]

\* one element of reply.Response of a ProcessesReply
ProcessGroup(meta, procs) == [Metadata |-> meta, Processes |-> procs]

\* osapi.Container; Namespace, Image, Pid and Status are copied unchanged
Container(id, podid) == [Id |-> id, PodId |-> podid]

\* one element of reply.Response of a ContainersReply
ContainerGroup(meta, cs) == [Metadata |-> meta, Containers |-> cs]

----------------------------------------------------------------------------
(* Sorting.                                                                *)

\* the comparison is the wrong way round
rssAscending(p1, p2) == p1.ResidentMemory < p2.ResidentMemory

rss(p1, p2) == p1.ResidentMemory > p2.ResidentMemory

cpu(p1, p2) == p1.CpuTime > p2.CpuTime

\* only the two names of --sort choose a comparator; under any other
\* value nothing is Less than anything
SortLessKnownOnly(method, p1, p2) ==
    IF method = "cpu" THEN cpu(p1, p2)
    ELSE IF method = "rss" THEN rss(p1, p2)
    ELSE FALSE

\* the comparator chosen by "switch sortMethod"
SortLess(method, p1, p2) ==
    IF method = "cpu" THEN cpu(p1, p2) ELSE rss(p1, p2)

Perms(n) == {f \in [1..n -> 1..n] : \A i, j \in 1..n : i # j => f[i] # f[j]}

\* sort.Sort and sort.Slice: the result is a rearrangement of the slice in
\* which no element is Less than one before it; the order of elements that
\* are not Less than each other is not promised ("not guaranteed to be
\* stable").  The set of results the library may produce for n items with
\* less[i, j] the Less(i, j) of the sort.Interface, as rearrangements f of
\* the indices: result[i] = items[f[i]].
SortOutcomes(n, less) ==
    {f \in Perms(n) : \A i, j \in 1..n : i < j => ~less[f[j], f[i]]}

Rearranged(items, f) == [i \in 1..Len(items) |-> items[f[i]]]

\* by(less).sort(procs): the orders procs may be left in
BySort(method, procs) ==
    LET less == [i, j \in 1..Len(procs) |-> SortLess(method, procs[i], procs[j])]
    IN  {Rearranged(procs, f) : f \in SortOutcomes(Len(procs), less)}

\* the bytes of the characters, least first
ByteOrder == <<Space, ".", Slash, "a", "b", "U+2500", "U+2514">>

ByteRank(c) == CHOOSE i \in 1..Len(ByteOrder) : ByteOrder[i] = c

\* strings.Compare: -1, 0 or 1, comparing byte by byte
RECURSIVE StringsCompare(_, _)
StringsCompare(a, b) ==
    IF a = <<>> /\ b = <<>> THEN 0
    ELSE IF a = <<>> THEN -1
    ELSE IF b = <<>> THEN 1
    ELSE IF ByteRank(Head(a)) < ByteRank(Head(b)) THEN -1
    ELSE IF ByteRank(Head(a)) > ByteRank(Head(b)) THEN 1
    ELSE StringsCompare(Tail(a), Tail(b))

\* the rows are ordered by what they display
ContainerLessByDisplay(c1, c2) ==
    LET shown(c) == IF c.Id # c.PodId THEN <<"U+2514", "U+2500", Space>> \o c.Id
                    ELSE c.Id
    IN  StringsCompare(shown(c1), shown(c2)) < 0

\* the less function given to sort.Slice
ContainerLess(c1, c2) == StringsCompare(c1.Id, c2.Id) < 0

\* sort.Slice(resp.Containers, ...): the orders the slice may be left in
SortSlice(cs) ==
    LET less == [i, j \in 1..Len(cs) |-> ContainerLess(cs[i], cs[j])]
    IN  {Rearranged(cs, f) : f \in SortOutcomes(Len(cs), less)}

----------------------------------------------------------------------------
(* Rows.                                                                   *)

\* the switch that sets args: TRUE when indexing an empty strings.Fields
\* result stops it (index out of range)
ArgsPanics(p) ==
    /\ p.Executable # <<>>
    /\ p.Args # <<>>
    /\ \/ Fields(p.Args) = <<>>
       \/ Fields(p.Executable) = <<>>

\* the switch that sets args, where it completes
ArgsOf(p) ==
    IF p.Executable = <<>> THEN p.Command
    ELSE IF /\ p.Args # <<>>
            /\ Fields(p.Args)[1] = Base(Fields(p.Executable)[1])
         THEN ReplaceFirst(p.Args, Fields(p.Args)[1], p.Executable)
         ELSE p.Args

\* node of a row
NodeOf(resp) == IF resp.Metadata # Nil THEN resp.Metadata ELSE defaultNode

ProcessesHeader == "NODE | PID | STATE | THREADS | CPU-TIME | VIRTMEM | RESMEM | COMMAND"

\* the first line appended to s, and the first line written to w
HeaderLine(text) == [header |-> TRUE, text |-> text]

\* the fmt.Sprintf line of a process
ProcessRow(resp, p) ==
    [header |-> FALSE, node |-> NodeOf(resp), Pid |-> p.Pid,
     CpuTime |-> p.CpuTime, ResidentMemory |-> p.ResidentMemory,
     args |-> ArgsOf(p)]

ProcessRows(resp, procs) == [i \in 1..Len(procs) |-> ProcessRow(resp, procs[i])]

\* columnize.SimpleFormat: no lines give the empty string; otherwise one
\* line of text per input line, in the same order, each made of the input
\* line's elements.  A text is the sequence of its lines; the padding between
\* columns is not represented.
EmptyString == <<>>

SimpleFormat(lines) ==
    IF lines = <<>> THEN EmptyString
    ELSE [i \in 1..Len(lines) |-> [line |-> i, elems |-> lines[i]]]

ContainersHeader == "NODE\tNAMESPACE\tID\tIMAGE\tPID\tSTATUS"

NestMarker == <<"U+2514", "U+2500", Space>>

\* display of a container
Display(c) == IF c.Id # c.PodId THEN NestMarker \o c.Id ELSE c.Id

\* the fmt.Fprintf line of a container
ContainerRow(resp, c) ==
    [header |-> FALSE, node |-> NodeOf(resp), display |-> Display(c)]

ContainerRows(resp, cs) == [i \in 1..Len(cs) |-> ContainerRow(resp, cs[i])]

----------------------------------------------------------------------------
(* State.                                                                  *)

VARIABLES
    command,          \* the cobra command that runs: "processes", "containers"
    watchProcesses,   \* --watch
    sortMethod,       \* --sort, later set by the keys
    server,           \* the reply the node gives to a query that succeeds
    cancelled,        \* ctx.Done() is closed
    cancelledInQuery, \* history: the cancellation came with a query call out
    uiEvents,         \* key identifiers waiting on ui.PollEvents()
    ticker,           \* a tick waits in the ticker's channel
    inLoop,           \* the first draw is over: the ticker runs, the loop runs
    pc,               \* where Run is
    uiActive,         \* the terminal is held by termui: ui.Init .. ui.Close
    l,                \* the paragraph widget: its rectangle and its Text
    screen,           \* what the terminal shows: the last ui.Render
    processOutput,    \* processOutput of processesUI, output of Run
    err,              \* the error processesOutput returned
    reply,            \* reply.Response, sorted in place group by group
    g,                \* the group the range loop is at
    s,                \* the lines collected so far
    stdout,           \* what was printed
    lastQuery,        \* history: how the last query call ended
    usedKeys,         \* history: the sortMethod values read for this report
    exitBy,           \* history: the select case that ended the loop
    target,           \* --target: the nodes asked for
    md,               \* the "targets" of the metadata of the outgoing context
    queryTargets,     \* history: the "targets" the queries went out with
    lastCase,         \* history: the case the select took last, and for
                      \* an input event the branch of the switch it took
    logOrder,         \* whether readyOrder is kept in this run
    readyOrder        \* history: the channels that hold something for the
                      \* select, in the order in which they were filled

vars == <<command, watchProcesses, sortMethod, server, cancelled,
          cancelledInQuery, uiEvents, ticker, inLoop, pc, uiActive, l, screen,
          processOutput, err, reply, g, s, stdout, lastQuery, usedKeys,
          exitBy, target, md, queryTargets, lastCase, logOrder, readyOrder>>

\* Run has ended: it returned, the process exited (os.Exit), or it died of
\* a panic
Final == {"returned", "exited", "crashed"}

\* nothing was rendered yet
Blank == [text |-> EmptyString, rect |-> <<0, 0>>]

\* terminal.GetSize(0): the sizes the terminal takes
Sizes == {<<80, 24>>, <<120, 40>>}

\* the event IDs the terminal sends
Keys == {"q", "<C-c>", "r", "m", "c", "x"}

\* values of --sort
SortFlags == {"rss", "cpu", "bogus"}

----------------------------------------------------------------------------
(* The commands.                                                           *)

\* helpers.Should(e): a non-nil error is fatal for the process; it is
\* reported and the process ends there (deferred calls do not run)
ShouldExits(e) == e # Nil

flagVars == <<command, watchProcesses, target, logOrder>>
ctxVars == <<md, queryTargets>>
loopHist == <<lastCase, readyOrder>>

\* the history of the channels is kept where logOrder asks for it
Noted(order) == IF logOrder THEN order ELSE <<>>
histVars == <<lastQuery, exitBy>>
envVars == <<server, cancelled, cancelledInQuery, uiEvents, ticker>>
buildVars == <<reply, g, s, usedKeys>>

\* the live view keeps every node asked for
WatchTargetsAll(t) == t

\* the "targets" of the live view, lines 53 and 59-61: the nodes asked for,
\* cut down to the first of them when there are several
WatchTargets(t) == IF Len(t) > 1 THEN <<t[1]>> ELSE t

\* processesCmd.Run with --watch, lines 52-68 up to the call of processesUI
\* and its first draw(): the metadata is made, then ui.Init fails
\* (log.Fatalf) or the terminal is taken
RunWatch ==
    /\ pc = "start" /\ command = "processes" /\ watchProcesses
    /\ md' = WatchTargets(target)
    /\ \E ok \in BOOLEAN :
          IF ok THEN uiActive' = TRUE /\ pc' = "draw"
                ELSE uiActive' = FALSE /\ pc' = "exited"
    /\ UNCHANGED <<flagVars, queryTargets, loopHist, envVars, buildVars,
                   sortMethod, inLoop, l, screen, processOutput, err, stdout,
                   histVars>>

\* processesCmd.Run without --watch, lines 52-53 and 69-71: the metadata is
\* made, processesOutput is called and calls c.Processes
RunBatch ==
    /\ pc = "start" /\ command = "processes" /\ ~watchProcesses
    /\ md' = target
    /\ queryTargets' = queryTargets \cup {md'}
    /\ pc' = "query"
    /\ UNCHANGED <<flagVars, loopHist, envVars, buildVars, sortMethod, inLoop,
                   uiActive, l, screen, processOutput, err, stdout, histVars>>

\* containersCmd.Run, lines 40-57: the metadata is made, c.Containers is
\* called
RunContainers ==
    /\ pc = "start" /\ command = "containers"
    /\ md' = target
    /\ queryTargets' = queryTargets \cup {md'}
    /\ pc' = "query"
    /\ UNCHANGED <<flagVars, loopHist, envVars, buildVars, sortMethod, inLoop,
                   uiActive, l, screen, processOutput, err, stdout, histVars>>

\* draw(), lines 101-106: the size is read (a failure ends the process in
\* helpers.Should), the widget is given the size, processesOutput is called
\* and calls c.Processes
DrawBegin ==
    /\ pc = "draw"
    /\ \E size \in Sizes, e \in {Nil, "error"} :
          IF ShouldExits(e)
          THEN pc' = "exited" /\ l' = l /\ queryTargets' = queryTargets
          ELSE /\ pc' = "query"
               /\ l' = [l EXCEPT !.rect = size]
               /\ queryTargets' = queryTargets \cup {md}
    /\ UNCHANGED <<flagVars, md, loopHist, envVars, buildVars, sortMethod,
                   inLoop, uiActive, screen, processOutput, err, stdout,
                   histVars>>

\* the caller renders whatever it is given, the empty string too
ProcessesReturnedAlwaysRender(output, e) ==
    /\ processOutput' = output
    /\ err' = e
    /\ IF ShouldExits(e)
       THEN pc' = "exited" /\ UNCHANGED <<l, screen, stdout, inLoop>>
       ELSE IF watchProcesses
       THEN /\ pc' = "select"
            /\ inLoop' = TRUE
            /\ stdout' = stdout
            /\ l' = [l EXCEPT !.text = output]
            /\ screen' = [text |-> output, rect |-> l.rect]
       ELSE /\ pc' = "returned"
            /\ stdout' = Append(stdout, output)
            /\ UNCHANGED <<l, screen, inLoop>>

\* what the caller of processesOutput does with (output, e):
\* draw(), lines 106-118 and the return into processesUI (lines 120-123 the
\* first time); Run, lines 71-75
ProcessesReturned(output, e) ==
    /\ processOutput' = output
    /\ err' = e
    /\ IF ShouldExits(e)
       THEN pc' = "exited" /\ UNCHANGED <<l, screen, stdout, inLoop>>
       ELSE IF watchProcesses
       THEN /\ pc' = "select"
            /\ inLoop' = TRUE
            /\ stdout' = stdout
            /\ IF output = EmptyString
               THEN UNCHANGED <<l, screen>>
               ELSE /\ l' = [l EXCEPT !.text = output]
                    /\ screen' = [text |-> output, rect |-> l.rect]
       ELSE /\ pc' = "returned"
            /\ stdout' = Append(stdout, output)
            /\ UNCHANGED <<l, screen, inLoop>>

\* the header is forgotten
FirstLinesNoHeader == <<>>

\* s := []string{} and the append of the header, lines 200-202
FirstLines == <<HeaderLine(ProcessesHeader)>>

\* a query that fails is made again at once
ProcessesReplyRetries ==
    /\ pc = "query" /\ command = "processes"
    /\ \E ok \in BOOLEAN :
          IF ok
          THEN /\ lastQuery' = "ok"
               /\ reply' = server
               /\ s' = FirstLines
               /\ g' = 1
               /\ usedKeys' = {}
               /\ pc' = "build"
               /\ UNCHANGED <<processOutput, err, l, screen, stdout, inLoop>>
          ELSE /\ lastQuery' = "fail"
               /\ pc' = "draw"
               /\ UNCHANGED <<processOutput, err, l, screen, stdout, inLoop>>
               /\ UNCHANGED buildVars
    /\ UNCHANGED <<flagVars, ctxVars, loopHist, envVars, sortMethod, uiActive,
                   exitBy>>

\* processesOutput, lines 189-202: c.Processes returns.  An error is
\* dropped and ("", nil) returned; else the lines start with the header.
ProcessesReply ==
    /\ pc = "query" /\ command = "processes"
    /\ \E ok \in BOOLEAN :
          IF ok
          THEN /\ lastQuery' = "ok"
               /\ reply' = server
               /\ s' = FirstLines
               /\ g' = 1
               /\ usedKeys' = {}
               /\ pc' = "build"
               /\ UNCHANGED <<processOutput, err, l, screen, stdout, inLoop>>
          ELSE /\ lastQuery' = "fail"
               /\ ProcessesReturned(EmptyString, Nil)
               /\ UNCHANGED buildVars
    /\ UNCHANGED <<flagVars, ctxVars, loopHist, envVars, sortMethod, uiActive,
                   exitBy>>

\* the rows of a group are put before the rows of the groups before it
SortGroupRowsFirst ==
    /\ pc = "build" /\ command = "processes" /\ g <= Len(reply)
    /\ \E procs \in BySort(sortMethod, reply[g].Processes) :
          /\ reply' = [reply EXCEPT ![g].Processes = procs]
          /\ usedKeys' = usedKeys \cup {sortMethod}
          /\ IF \E i \in 1..Len(procs) : ArgsPanics(procs[i])
             THEN pc' = "panic" /\ UNCHANGED <<s, g>>
             ELSE /\ s' = <<Head(s)>> \o ProcessRows(reply[g], procs) \o Tail(s)
                  /\ g' = g + 1
                  /\ pc' = pc
    /\ UNCHANGED <<flagVars, ctxVars, loopHist, envVars, sortMethod, inLoop,
                   uiActive, l, screen, processOutput, err, stdout, histVars>>

\* processesOutput, lines 204-236: one pass of the range loop.  The group
\* is sorted by the sortMethod of this moment and gives a line per process;
\* a process whose args cannot be taken apart stops the loop with a panic.
SortGroup ==
    /\ pc = "build" /\ command = "processes" /\ g <= Len(reply)
    /\ \E procs \in BySort(sortMethod, reply[g].Processes) :
          /\ reply' = [reply EXCEPT ![g].Processes = procs]
          /\ usedKeys' = usedKeys \cup {sortMethod}
          /\ IF \E i \in 1..Len(procs) : ArgsPanics(procs[i])
             THEN pc' = "panic" /\ UNCHANGED <<s, g>>
             ELSE /\ s' = s \o ProcessRows(reply[g], procs)
                  /\ g' = g + 1
                  /\ pc' = pc
    /\ UNCHANGED <<flagVars, ctxVars, loopHist, envVars, sortMethod, inLoop,
                   uiActive, l, screen, processOutput, err, stdout, histVars>>

\* processesOutput, line 238, and its caller
ProcessesFinish ==
    /\ pc = "build" /\ command = "processes" /\ g > Len(reply)
    /\ ProcessesReturned(SimpleFormat(s), Nil)
    /\ UNCHANGED <<flagVars, ctxVars, loopHist, envVars, buildVars,
                   sortMethod, uiActive, histVars>>

\* a panic unwinds Run: the deferred ui.Close of the watch case runs, then
\* the process dies
Unwind ==
    /\ pc = "panic"
    /\ pc' = "crashed"
    /\ uiActive' = FALSE
    /\ UNCHANGED <<flagVars, ctxVars, loopHist, envVars, buildVars,
                   sortMethod, inLoop, l, screen, processOutput, err, stdout,
                   histVars>>

\* the cancellation is taken while the query call is still out
CtxDoneDuringCall ==
    /\ pc \in {"select", "query"} /\ cancelled
    /\ pc' = "terminating"
    /\ exitBy' = "cancel"
    /\ lastCase' = "ctx.Done"
    /\ UNCHANGED <<flagVars, ctxVars, readyOrder, envVars, buildVars,
                   sortMethod, inLoop, uiActive, l, screen, processOutput,
                   err, stdout, lastQuery>>

\* the select of processesUI, case <-ctx.Done(): processesUI returns
CtxDone ==
    /\ pc = "select" /\ cancelled
    /\ pc' = "terminating"
    /\ exitBy' = "cancel"
    /\ lastCase' = "ctx.Done"
    /\ UNCHANGED <<flagVars, ctxVars, readyOrder, envVars, buildVars,
                   sortMethod, inLoop, uiActive, l, screen, processOutput,
                   err, stdout, lastQuery>>

\* q without its first x
Without(q, x) ==
    IF \E i \in 1..Len(q) : q[i] = x
    THEN LET i == CHOOSE i \in 1..Len(q) :
                      q[i] = x /\ \A j \in 1..(i - 1) : q[j] # x
         IN  SubSeq(q, 1, i - 1) \o SubSeq(q, i + 1, Len(q))
    ELSE q

\* the branch of switch e.ID that the event e takes, lines 130-137
SwitchBranch(e) ==
    IF e \in {"q", "<C-c>"} THEN "quit"
    ELSE IF e \in {"r", "m"} THEN "rss"
    ELSE IF e = "c" THEN "cpu"
    ELSE "ignored"

\* every key that is not "r" or "m" sets the order to cpu
KeySortMethodAnyKey(e, method) ==
    IF e \in {"r", "m"} THEN "rss" ELSE "cpu"

\* the sortMethod after the event e, lines 133-136
KeySortMethod(e, method) ==
    IF e \in {"r", "m"} THEN "rss"
    ELSE IF e = "c" THEN "cpu"
    ELSE method

\* a key that sets the order redraws at once
UiEventRedraws ==
    /\ pc = "select" /\ uiEvents # <<>>
    /\ LET e == Head(uiEvents)
       IN  /\ uiEvents' = Tail(uiEvents)
           /\ pc' = IF e \in {"q", "<C-c>"} THEN "terminating"
                    ELSE IF e \in {"r", "m", "c"} THEN "draw" ELSE pc
           /\ exitBy' = IF e \in {"q", "<C-c>"} THEN "quit" ELSE exitBy
           /\ sortMethod' = KeySortMethod(e, sortMethod)
           /\ lastCase' = SwitchBranch(e)
    /\ readyOrder' = Noted(Without(readyOrder, "uiEvents"))
    /\ UNCHANGED <<flagVars, ctxVars, buildVars, server, cancelled,
                   cancelledInQuery, ticker, inLoop, uiActive, l, screen,
                   processOutput, err, stdout, lastQuery>>

\* the keys that quit are taken from the queue and do nothing
UiEventQuitIgnored ==
    /\ pc = "select" /\ uiEvents # <<>>
    /\ LET e == Head(uiEvents)
       IN  /\ uiEvents' = Tail(uiEvents)
           /\ pc' = pc
           /\ exitBy' = exitBy
           /\ sortMethod' = KeySortMethod(e, sortMethod)
           /\ lastCase' = SwitchBranch(e)
    /\ readyOrder' = Noted(Without(readyOrder, "uiEvents"))
    /\ UNCHANGED <<flagVars, ctxVars, buildVars, server, cancelled,
                   cancelledInQuery, ticker, inLoop, uiActive, l, screen,
                   processOutput, err, stdout, lastQuery>>

\* the select of processesUI, case e := <-uiEvents, lines 129-137
UiEvent ==
    /\ pc = "select" /\ uiEvents # <<>>
    /\ LET e == Head(uiEvents)
       IN  /\ uiEvents' = Tail(uiEvents)
           /\ pc' = IF e \in {"q", "<C-c>"} THEN "terminating" ELSE pc
           /\ exitBy' = IF e \in {"q", "<C-c>"} THEN "quit" ELSE exitBy
           /\ sortMethod' = KeySortMethod(e, sortMethod)
           /\ lastCase' = SwitchBranch(e)
    /\ readyOrder' = Noted(Without(readyOrder, "uiEvents"))
    /\ UNCHANGED <<flagVars, ctxVars, buildVars, server, cancelled,
                   cancelledInQuery, ticker, inLoop, uiActive, l, screen,
                   processOutput, err, stdout, lastQuery>>

\* the select of processesUI, case <-ticker: draw() is called
Tick ==
    /\ pc = "select" /\ ticker
    /\ ticker' = FALSE
    /\ pc' = "draw"
    /\ lastCase' = "ticker"
    /\ readyOrder' = Noted(Without(readyOrder, "ticker"))
    /\ UNCHANGED <<flagVars, ctxVars, buildVars, server, cancelled,
                   cancelledInQuery, uiEvents, sortMethod, inLoop, uiActive,
                   l, screen, processOutput, err, stdout, histVars>>

\* processesUI has returned: the deferred ui.Close of Run, line 66, runs
\* and Run returns
DeferredClose ==
    /\ pc = "terminating"
    /\ uiActive' = FALSE
    /\ pc' = "returned"
    /\ UNCHANGED <<flagVars, ctxVars, loopHist, envVars, buildVars,
                   sortMethod, inLoop, l, screen, processOutput, err, stdout,
                   histVars>>

\* containersCmd.Run, lines 57-60, and containerRender, lines 68-71:
\* c.Containers returns; an error ends the process (helpers.Fatalf), else
\* the header is written to the tabwriter
ContainersReply ==
    /\ pc = "query" /\ command = "containers"
    /\ \E ok \in BOOLEAN :
          IF ok
          THEN /\ lastQuery' = "ok"
               /\ reply' = server
               /\ s' = <<HeaderLine(ContainersHeader)>>
               /\ g' = 1
               /\ pc' = "build"
          ELSE /\ lastQuery' = "fail"
               /\ pc' = "exited"
               /\ UNCHANGED <<reply, s, g>>
    /\ UNCHANGED <<flagVars, ctxVars, loopHist, envVars, usedKeys, sortMethod,
                   inLoop, uiActive, l, screen, processOutput, err, stdout,
                   exitBy>>

\* containerRender, lines 73-95: one pass of the range loop
RenderGroup ==
    /\ pc = "build" /\ command = "containers" /\ g <= Len(reply)
    /\ \E cs \in SortSlice(reply[g].Containers) :
          /\ reply' = [reply EXCEPT ![g].Containers = cs]
          /\ s' = s \o ContainerRows(reply[g], cs)
          /\ g' = g + 1
    /\ UNCHANGED <<flagVars, ctxVars, loopHist, envVars, usedKeys, sortMethod,
                   inLoop, pc, uiActive, l, screen, processOutput, err,
                   stdout, histVars>>

\* containerRender, line 97: the tabwriter is flushed to os.Stdout; a
\* write error ends the process in helpers.Should
Flush ==
    /\ pc = "build" /\ command = "containers" /\ g > Len(reply)
    /\ \E e \in {Nil, "error"} :
          IF ShouldExits(e)
          THEN pc' = "exited" /\ stdout' = stdout
          ELSE pc' = "returned" /\ stdout' = Append(stdout, s)
    /\ UNCHANGED <<flagVars, ctxVars, loopHist, envVars, buildVars,
                   sortMethod, inLoop, uiActive, l, screen, processOutput,
                   err, histVars>>

----------------------------------------------------------------------------
(* The surroundings of the interactive session.                            *)

\* globalCtx is cancelled
Cancel ==
    /\ watchProcesses /\ pc \notin Final \cup {"start"}
    /\ ~cancelled
    /\ cancelled' = TRUE
    /\ cancelledInQuery' = (pc = "query")
    /\ readyOrder' = Noted(Append(readyOrder, "ctx.Done"))
    /\ UNCHANGED <<flagVars, ctxVars, lastCase, buildVars, server, uiEvents,
                   ticker, sortMethod, inLoop, pc, uiActive, l, screen,
                   processOutput, err, stdout, histVars>>

\* a key is pressed while the terminal is held
KeyPress ==
    /\ uiActive /\ pc \notin Final
    /\ Len(uiEvents) < MaxEvents
    /\ \E k \in Keys : uiEvents' = Append(uiEvents, k)
    /\ readyOrder' = Noted(Append(readyOrder, "uiEvents"))
    /\ UNCHANGED <<flagVars, ctxVars, lastCase, buildVars, server, cancelled,
                   cancelledInQuery, ticker, sortMethod, inLoop, pc, uiActive,
                   l, screen, processOutput, err, stdout, histVars>>

\* time.NewTicker(time.Second): a second has passed.  The channel holds one
\* tick; a tick that finds it full is dropped.
TimerFire ==
    /\ inLoop /\ pc \notin Final
    /\ ~ticker
    /\ ticker' = TRUE
    /\ readyOrder' = Noted(Append(readyOrder, "ticker"))
    /\ UNCHANGED <<flagVars, ctxVars, lastCase, buildVars, server, cancelled,
                   cancelledInQuery, uiEvents, sortMethod, inLoop, pc,
                   uiActive, l, screen, processOutput, err, stdout, histVars>>

----------------------------------------------------------------------------
(* The replies explored.                                                   *)

Hostnames == <<"node1", "node2", "node3", "node4">>

\* the Metadata of the i-th group: meta tells whether the nodes sent theirs
MetadataOf(meta, i) == IF meta THEN Hostnames[i] ELSE Nil

ProcessesReplyOf(meta, groups) ==
    [i \in 1..Len(groups) |-> ProcessGroup(MetadataOf(meta, i), groups[i])]

ContainersReplyOf(meta, groups) ==
    [i \in 1..Len(groups) |-> ContainerGroup(MetadataOf(meta, i), groups[i])]

\* replies of the interactive session and of the plain run: no group, a
\* group without processes, two groups that the two orders sort differently,
\* a process whose Args is blank
WatchReplies ==
    LET pa == Process(1, 2, 1, <<>>, <<>>, <<"a">>)
        pb == Process(2, 1, 2, <<Slash, "a">>, <<"a", Space, "b">>, <<"a">>)
        px == Process(3, 1, 1, <<Slash, "a">>, <<Space>>, <<"a">>)
    IN  { <<>>,
          <<ProcessGroup(Nil, <<>>)>>,
          <<ProcessGroup("node1", <<pa, pb>>), ProcessGroup(Nil, <<pb, pa>>)>>,
          <<ProcessGroup("node1", <<px>>)>> }

\* the ways to cut t items into k groups, some of them empty: c[i] is the
\* number of items in the first i groups
Cuts(t, k) ==
    {c \in [0..k -> 0..t] :
        c[0] = 0 /\ c[k] = t /\ \A i \in 1..k : c[i - 1] <= c[i]}

\* every list of up to maxGroups groups that hold up to maxItems items of S
\* between them
GroupLists(S, maxItems, maxGroups) ==
    UNION {UNION {{[i \in 1..k |-> SubSeq(items, c[i - 1] + 1, c[i])] :
                      items \in [1..t -> S], c \in Cuts(t, k)} :
                  t \in 0..maxItems} :
           k \in 0..maxGroups}

\* a group of processes with the given <<ResidentMemory, CpuTime>>; the Pid
\* of a process is its place in the group
SortGroupOf(ranks) ==
    [i \in 1..Len(ranks) |->
        Process(i, ranks[i][1], ranks[i][2], <<>>, <<>>, <<"a">>)]

\* replies of up to MaxGroups groups and MaxProcs processes, with every
\* ResidentMemory and CpuTime in 1..MaxVal
SortReplies ==
    {ProcessesReplyOf(meta, [i \in 1..Len(groups) |-> SortGroupOf(groups[i])]) :
        meta \in BOOLEAN,
        groups \in GroupLists((1..MaxVal) \X (1..MaxVal), MaxProcs, MaxGroups)}

\* one process with every Executable and Args up to the bounds
ArgsReplies ==
    {<<ProcessGroup(Nil, <<Process(1, 1, 1, exe, arg, comm)>>)>> :
        exe \in Strings(MaxExeLen), arg \in Strings(MaxArgsLen),
        comm \in {<<>>, <<"b">>}}

Ids == {<<"a">>, <<"a", "b">>, <<"b">>}
PodIds == {<<"a">>, <<"b">>}

\* replies of up to MaxGroups groups and MaxContainers containers
ContainerReplies ==
    {ContainersReplyOf(meta, groups) :
        meta \in BOOLEAN,
        groups \in GroupLists({Container(id, podid) : id \in Ids, podid \in PodIds},
                              MaxContainers, MaxGroups)}

\* the processes of the node change between two queries
ServerChange ==
    /\ watchProcesses /\ pc = "select"
    /\ server' \in WatchReplies \ {server}
    /\ UNCHANGED <<flagVars, ctxVars, loopHist, buildVars, cancelled,
                   cancelledInQuery, uiEvents, ticker, sortMethod, inLoop, pc,
                   uiActive, l, screen, processOutput, err, stdout, histVars>>

----------------------------------------------------------------------------
(* Specifications.                                                         *)

\* the state at the start of Run, whatever the flags and the node
InitRun ==
    /\ cancelled = FALSE
    /\ cancelledInQuery = FALSE
    /\ uiEvents = <<>>
    /\ ticker = FALSE
    /\ inLoop = FALSE
    /\ pc = "start"
    /\ uiActive = FALSE
    /\ l = Blank
    /\ screen = Blank
    /\ processOutput = EmptyString
    /\ err = Nil
    /\ reply = <<>>
    /\ g = 1
    /\ s = <<>>
    /\ stdout = <<>>
    /\ lastQuery = "none"
    /\ usedKeys = {}
    /\ exitBy = "none"
    /\ md = <<>>
    /\ queryTargets = {}
    /\ lastCase = "none"
    /\ readyOrder = <<>>

\* no --target was given: the nodes of the configuration answer
NoTarget == <<>>

Init ==
    /\ InitRun
    /\ target = NoTarget
    /\ logOrder = FALSE
    /\ command \in {"processes", "containers"}
    /\ IF command = "processes"
       THEN /\ watchProcesses \in BOOLEAN
            /\ sortMethod \in SortFlags
            /\ server \in WatchReplies
       ELSE /\ watchProcesses = FALSE
            /\ sortMethod = "rss"
            /\ server \in ContainerReplies

Next ==
    \/ RunWatch \/ RunBatch \/ RunContainers
    \/ DrawBegin \/ ProcessesReply \/ SortGroup \/ ProcessesFinish \/ Unwind
    \/ CtxDone \/ UiEvent \/ Tick \/ DeferredClose
    \/ ContainersReply \/ RenderGroup \/ Flush
    \/ Cancel \/ KeyPress \/ TimerFire \/ ServerChange

Spec == Init /\ [][Next]_vars

\* "osctl processes" without --watch over every reply of SortReplies
InitSort ==
    /\ InitRun
    /\ target = NoTarget
    /\ logOrder = FALSE
    /\ command = "processes"
    /\ watchProcesses = FALSE
    /\ sortMethod \in SortFlags
    /\ server \in SortReplies

NextSort == RunBatch \/ ProcessesReply \/ SortGroup \/ ProcessesFinish

SpecSort == InitSort /\ [][NextSort]_vars

\* "osctl processes" without --watch over every reply of ArgsReplies
InitArgs ==
    /\ InitRun
    /\ target = NoTarget
    /\ logOrder = FALSE
    /\ command = "processes"
    /\ watchProcesses = FALSE
    /\ sortMethod = "rss"
    /\ server \in ArgsReplies

NextArgs ==
    RunBatch \/ ProcessesReply \/ SortGroup \/ ProcessesFinish \/ Unwind

SpecArgs == InitArgs /\ [][NextArgs]_vars

\* the nodes that can be named by --target
TargetNames == {"10.0.0.1", "10.0.0.2"}

\* "osctl processes" with every --target list up to MaxTargets nodes, with
\* and without --watch
InitTargets ==
    /\ InitRun
    /\ target \in SeqUpTo(TargetNames, MaxTargets)
    /\ logOrder = FALSE
    /\ command = "processes"
    /\ watchProcesses \in BOOLEAN
    /\ sortMethod = "rss"
    /\ server \in {r \in WatchReplies : Len(r) = 2}

NextTargets ==
    \/ RunWatch \/ RunBatch
    \/ DrawBegin \/ ProcessesReply \/ SortGroup \/ ProcessesFinish
    \/ CtxDone \/ UiEvent \/ Tick \/ DeferredClose
    \/ Cancel \/ KeyPress \/ TimerFire

SpecTargets == InitTargets /\ [][NextTargets]_vars

\* "osctl processes --watch" with the history of the channels kept, over a
\* node whose processes stay as they are
InitLoop ==
    /\ InitRun
    /\ target = NoTarget
    /\ logOrder = TRUE
    /\ command = "processes"
    /\ watchProcesses = TRUE
    /\ sortMethod \in SortFlags
    /\ server \in {r \in WatchReplies : Len(r) = 2}

NextLoop ==
    \/ RunWatch
    \/ DrawBegin \/ ProcessesReply \/ SortGroup \/ ProcessesFinish
    \/ CtxDone \/ UiEvent \/ Tick \/ DeferredClose
    \/ Cancel \/ KeyPress \/ TimerFire

SpecLoop == InitLoop /\ [][NextLoop]_vars

\* "osctl processes --watch" ordered by rss, over a node with two processes
\* that rss and cpu order differently
InitLive ==
    /\ InitRun
    /\ target = NoTarget
    /\ logOrder = FALSE
    /\ command = "processes"
    /\ watchProcesses = TRUE
    /\ sortMethod = "rss"
    /\ server = ProcessesReplyOf(TRUE, <<SortGroupOf(<<<<1, 2>>, <<2, 1>>>>)>>)

\* what the goroutine of Run does by itself once a draw has begun or the
\* loop has ended
RunGoesOn ==
    DrawBegin \/ ProcessesReply \/ SortGroup \/ ProcessesFinish \/ DeferredClose

\* the session under the scheduling of Go: the goroutine of Run goes on as
\* long as it can (every call of a draw returns), and the select, which
\* takes one of the ready cases by uniform random choice, does not pass
\* over a case for ever that is ready again and again
LoopFairness ==
    /\ WF_vars(RunGoesOn)
    /\ SF_vars(CtxDone) /\ SF_vars(UiEvent)

SpecLive == InitLive /\ [][NextLoop]_vars /\ LoopFairness

----------------------------------------------------------------------------
(* Properties.                                                             *)

C3_FailedTickKeepsFrame ==
    [][/\ (watchProcesses /\ pc = "query" /\ pc' # "query"
              /\ lastQuery' = "fail")
            => /\ screen' = screen
               /\ pc' = "select"
               /\ uiActive'
       /\ screen' # screen
            => /\ pc = "build" /\ pc' = "select"
               /\ lastQuery = "ok"
       /\ (watchProcesses /\ pc = "build" /\ pc' = "select")
            => /\ processOutput' # EmptyString
               /\ screen' = [text |-> processOutput', rect |-> l.rect]]_vars

\* after a frame was rendered a query has failed: the frame is still there
\* although the widget was given another size, and the loop has a tick to
\* take
C3_Witness ==
    /\ watchProcesses /\ pc = "select" /\ ticker
    /\ lastQuery = "fail"
    /\ screen # Blank
    /\ screen.text = l.text
    /\ screen.rect # l.rect

\* C4: without --watch, a query that fails is returned as an error by
\* processesOutput: no report is printed for it.
C4_BatchErrorReturned ==
    (command = "processes" /\ ~watchProcesses /\ lastQuery = "fail")
        => (err # Nil /\ stdout = <<>>)

RECURSIVE CountProcesses(_)
CountProcesses(groups) ==
    IF groups = <<>> THEN 0
    ELSE Len(Head(groups).Processes) + CountProcesses(Tail(groups))

RECURSIVE CountContainers(_)
CountContainers(groups) ==
    IF groups = <<>> THEN 0
    ELSE Len(Head(groups).Containers) + CountContainers(Tail(groups))

\* C5: the report of a query that succeeded is never the empty string, its
\* first line is the header and no other line is; when the reply holds no
\* record the report is the header alone.  The same holds of what the
\* containers command prints.
C5_HeaderAlwaysFirst ==
    /\ (command = "processes" /\ lastQuery = "ok"
           /\ pc \in {"select", "terminating", "returned"})
         => /\ processOutput # EmptyString
            /\ processOutput[1].elems = HeaderLine(ProcessesHeader)
            /\ \A i \in 2..Len(processOutput) : ~processOutput[i].elems.header
            /\ CountProcesses(reply) = 0 => Len(processOutput) = 1
    /\ (command = "containers" /\ pc = "returned")
         => /\ stdout = <<s>>
            /\ s[1] = HeaderLine(ContainersHeader)
            /\ \A i \in 2..Len(s) : ~s[i].header
            /\ CountContainers(reply) = 0 => Len(s) = 1

\* a reply of one group without processes was reported: the header alone
C5_Witness ==
    /\ command = "processes" /\ lastQuery = "ok" /\ pc = "returned"
    /\ Len(reply) = 1 /\ CountProcesses(reply) = 0
    /\ stdout = <<processOutput>>
    /\ Len(processOutput) = 1

IsPermutation(a, b) ==
    /\ Len(a) = Len(b)
    /\ \E f \in Perms(Len(b)) : a = Rearranged(b, f)

\* the groups the range loop has sorted
SortedGroups == 1..(g - 1)

\* C6: a group sorted with the rss comparator is a rearrangement of the
\* group as it was in the reply in which ResidentMemory never increases;
\* with the cpu comparator, one in which CpuTime never increases.
C6_SortedDescending ==
    \A k \in SortedGroups :
        LET procs == reply[k].Processes
        IN  /\ IsPermutation(procs, server[k].Processes)
            /\ sortMethod = "rss" =>
                  \A i, j \in 1..Len(procs) :
                      i < j => procs[i].ResidentMemory >= procs[j].ResidentMemory
            /\ sortMethod = "cpu" =>
                  \A i, j \in 1..Len(procs) :
                      i < j => procs[i].CpuTime >= procs[j].CpuTime

\* a group that the reply held in ascending order of CpuTime was sorted by
\* cpu, and another order of the same group by rss
C6_Witness ==
    /\ pc = "returned"
    /\ \E k \in 1..Len(reply) :
          /\ Len(reply[k].Processes) = MaxProcs
          /\ reply[k].Processes # server[k].Processes
          /\ reply[k].Processes[1].Pid = MaxProcs
    /\ sortMethod = "cpu"

\* the field the rows are ordered by
RankOf(p, method) == IF method = "cpu" THEN p.CpuTime ELSE p.ResidentMemory

\* C7: two processes of a group that are equal in the field the group is
\* ordered by stay in the order the reply had them in (the Pid of a process
\* is its place in the reply).
C7_StableSort ==
    \A k \in SortedGroups :
        LET procs == reply[k].Processes
        IN  \A i, j \in 1..Len(procs) :
                (i < j /\ RankOf(procs[i], sortMethod) = RankOf(procs[j], sortMethod))
                    => procs[i].Pid < procs[j].Pid

RECURSIVE AllProcessRows(_)
AllProcessRows(groups) ==
    IF groups = <<>> THEN <<>>
    ELSE ProcessRows(Head(groups), Head(groups).Processes)
             \o AllProcessRows(Tail(groups))

\* C8: taking a key from uiEvents draws nothing and leaves the screen, the
\* widget and the report as they are; sortMethod changes only at the select,
\* by a key; while a report is built every group is sorted by the one
\* sortMethod of that time, and the frame rendered from it is in that order.
C8_KeyOnlySetsSortMethod ==
    [][/\ Len(uiEvents') < Len(uiEvents)
            => /\ pc = "select" /\ pc' \in {"select", "terminating"}
               /\ screen' = screen /\ l' = l
               /\ processOutput' = processOutput /\ lastQuery' = lastQuery
       /\ sortMethod' # sortMethod
            => /\ pc = "select" /\ pc' = "select"
               /\ Len(uiEvents') < Len(uiEvents)
               /\ sortMethod' \in {"rss", "cpu"}
       /\ pc' = "build" => usedKeys' \subseteq {sortMethod'}
       /\ screen' # screen
            => /\ usedKeys \subseteq {sortMethod}
               /\ screen'.text = SimpleFormat(FirstLines \o AllProcessRows(reply))
               /\ \A k \in 1..Len(reply) :
                     LET procs == reply[k].Processes
                     IN  \A i, j \in 1..Len(procs) :
                             i < j => RankOf(procs[i], sortMethod)
                                          >= RankOf(procs[j], sortMethod)]_vars

\* "c" was taken from uiEvents after a frame in descending ResidentMemory
\* was rendered: the frame is still on the screen
C8_Witness ==
    /\ watchProcesses /\ pc = "select" /\ uiEvents = <<>>
    /\ sortMethod = "cpu"
    /\ lastQuery = "ok"
    /\ Len(screen.text) = 5
    /\ screen.text[2].elems.ResidentMemory > screen.text[3].elems.ResidentMemory
    /\ screen.text[2].elems.CpuTime < screen.text[3].elems.CpuTime

\* the base name the first token of Args is compared with
ClaimedBase(exe) ==
    IF Fields(exe) = <<>> THEN Base(exe) ELSE Base(Fields(exe)[1])

\* the command C9 tells for a process
ClaimedArgs(p) ==
    IF p.Executable = <<>> THEN p.Command
    ELSE IF Fields(p.Args) # <<>> /\ Fields(p.Args)[1] = ClaimedBase(p.Executable)
         THEN ReplaceFirst(p.Args, Fields(p.Args)[1], p.Executable)
         ELSE p.Args

\* C9: the row of a process shows Command when Executable is empty, Args
\* with its first token replaced by Executable when that token is the base
\* name of the executable, and Args as it is otherwise.
C9_CommandReconstruction ==
    (pc \in Final /\ lastQuery = "ok")
        => /\ pc = "returned"
           /\ stdout = <<processOutput>>
           /\ processOutput[2].elems.args = ClaimedArgs(server[1].Processes[1])

\* the place in s of the line before the rows of group k
RowsBefore(k) == 1 + CountContainers(SubSeq(reply, 1, k - 1))

\* C10: the containers of a group are written in ascending order of Id,
\* whatever they display; the row of a container shows the Id after the
\* nesting marker when Id differs from PodId and the bare Id when not.
C10_ContainersById ==
    command = "containers" =>
        \A k \in SortedGroups :
            LET cs == reply[k].Containers
            IN  /\ IsPermutation(cs, server[k].Containers)
                /\ \A i, j \in 1..Len(cs) :
                      i < j => StringsCompare(cs[i].Id, cs[j].Id) <= 0
                /\ \A i \in 1..Len(cs) :
                      s[RowsBefore(k) + i].display =
                          IF cs[i].Id # cs[i].PodId THEN NestMarker \o cs[i].Id
                          ELSE cs[i].Id

\* the reply held "b" of pod "b" before "a" of pod "b": "a" was written
\* first, with the marker, and "b" after it, without
C10_Witness ==
    /\ command = "containers" /\ pc = "returned"
    /\ Len(server) = 1
    /\ server[1].Containers =
           <<Container(<<"b">>, <<"b">>), Container(<<"a">>, <<"b">>)>>
    /\ stdout = <<s>>
    /\ s[2].display = NestMarker \o <<"a">>
    /\ s[3].display = <<"b">>

\* C11: in a session with --watch and more than one node asked for, every
\* query has gone out for the first of these nodes only; a run without
\* --watch has sent its query for all the nodes asked for.
C11_WatchQueriesFirstTarget ==
    /\ (watchProcesses /\ Len(target) > 1)
          => queryTargets \subseteq {<<target[1]>>}
    /\ (~watchProcesses /\ pc # "start") => queryTargets = {target}

\* a session over two nodes has queried a second time and painted
C11_Witness ==
    /\ watchProcesses /\ Len(target) > 1 /\ target[1] # target[2]
    /\ queryTargets # {}
    /\ inLoop /\ pc = "select" /\ lastQuery = "ok" /\ screen # Blank
    /\ exitBy = "none" /\ cancelled

\* the key identifiers the loop has a case for
FiveKeys == {"q", "<C-c>", "r", "m", "c"}

\* C12: an input event taken at the select ends the session when it is "q"
\* or "<C-c>", sets sortMethod to rss when it is "r" or "m" and to cpu when
\* it is "c", the loop going on in these three cases; any other event
\* changes nothing but the queue it is taken from: sortMethod, the widget,
\* the screen, the report and the place of the loop stay as they are.
C12_ExactlyFiveKeys ==
    [][(pc = "select" /\ Len(uiEvents') < Len(uiEvents))
          => LET e == Head(uiEvents)
             IN  /\ e \in {"q", "<C-c>"} => pc' = "terminating"
                 /\ e \in {"r", "m"} => (sortMethod' = "rss" /\ pc' = "select")
                 /\ e = "c" => (sortMethod' = "cpu" /\ pc' = "select")
                 /\ e \notin FiveKeys
                       => /\ sortMethod' = sortMethod
                          /\ pc' = "select"
                          /\ UNCHANGED <<l, screen, processOutput, err, inLoop,
                                         uiActive, ticker, cancelled, exitBy>>]_vars

\* a key the loop has no case for was taken while the order was cpu and a
\* frame was on the screen; the loop waits at the select again
C12_Witness ==
    /\ watchProcesses /\ pc = "select"
    /\ lastCase = "ignored"
    /\ sortMethod = "cpu"
    /\ screen # Blank
    /\ exitBy = "none"

\* C13: under every sortMethod that is not "cpu", a value of --sort that
\* names no order among them, the run raises no error and does not stop
\* early, and every group it has sorted is a rearrangement of the group of
\* the reply in which ResidentMemory never increases.
C13_DefaultsToRss ==
    sortMethod # "cpu" =>
        /\ err = Nil
        /\ pc \in {"start", "query", "build", "returned"}
        /\ \A k \in SortedGroups :
              LET procs == reply[k].Processes
              IN  /\ IsPermutation(procs, server[k].Processes)
                  /\ \A i \in 1..(Len(procs) - 1) :
                        procs[i].ResidentMemory >= procs[i + 1].ResidentMemory

\* --sort named no order; a group that the reply held in ascending order of
\* ResidentMemory was printed in descending order
C13_Witness ==
    /\ sortMethod \notin {"rss", "cpu"}
    /\ pc = "returned" /\ lastQuery = "ok" /\ stdout = <<processOutput>>
    /\ \E k \in 1..Len(server) :
          /\ Len(server[k].Processes) = 2
          /\ server[k].Processes[1].ResidentMemory
                < server[k].Processes[2].ResidentMemory
          /\ reply[k].Processes[1] = server[k].Processes[2]

\* the place of the first x in q, Len(q) + 1 when q holds none
Position(q, x) ==
    IF \E i \in 1..Len(q) : q[i] = x
    THEN CHOOSE i \in 1..Len(q) : q[i] = x /\ \A j \in 1..(i - 1) : q[j] # x
    ELSE Len(q) + 1

\* C14: the case the select takes is the one whose channel was filled
\* first: a tick is handled only when nothing was ready before it, and an
\* input event or the cancellation is handled only when no tick was ready
\* before it.
C14_ServedInReadyOrder ==
    [][/\ (pc = "select" /\ pc' = "draw")
             => Position(readyOrder, "ticker") = 1
       /\ (pc = "select" /\ Len(uiEvents') < Len(uiEvents))
             => Position(readyOrder, "uiEvents") < Position(readyOrder, "ticker")
       /\ (pc = "select" /\ pc' = "terminating" /\ uiEvents' = uiEvents)
             => Position(readyOrder, "ctx.Done") < Position(readyOrder, "ticker")]_vars

\* C15: a tick whose time comes while draw() runs is not kept for later:
\* as long as a draw is going on, no tick waits in the channel of the ticker
\* to be handled as soon as the draw is over.
C15_NoTickKeptOverADraw ==
    (inLoop /\ pc \in {"draw", "query", "build"}) => ~ticker

\* C16: once the cancellation has been signalled nothing is rendered: the
\* screen and the widget stay as the cancellation found them.
C16_NoPaintAfterCancel ==
    [][cancelled => (screen' = screen /\ l'.text = l.text)]_vars

\* the records of a group of the reply, and the rows they give in the
\* order of the reply
RecordsOf(group) ==
    IF command = "containers" THEN group.Containers ELSE group.Processes

RowsOf(group) ==
    IF command = "containers" THEN ContainerRows(group, group.Containers)
    ELSE ProcessRows(group, group.Processes)

\* the lines before the rows of the k-th group: the header and a row for
\* each record of the groups before it
RECURSIVE LinesBefore(_)
LinesBefore(k) ==
    IF k = 1 THEN 1 ELSE LinesBefore(k - 1) + Len(RecordsOf(server[k - 1]))

\* C17: while a report is built and when it is printed, the lines after the
\* header are the rows of the groups the loop has gone through, group after
\* group in the order of the reply: the rows of a group are the rows of the
\* records the reply held in that group, each once, in some order, under
\* the node of the group, and there is no other line.
C17_RowsGroupedInReplyOrder ==
    (pc = "build" \/ (pc = "returned" /\ ~watchProcesses /\ lastQuery = "ok"))
       => /\ Len(s) = LinesBefore(g)
          /\ \A k \in SortedGroups :
                LET n == Len(RecordsOf(server[k]))
                    rows == SubSeq(s, LinesBefore(k) + 1, LinesBefore(k) + n)
                IN  /\ IsPermutation(rows, RowsOf(server[k]))
                    /\ \A i \in 1..n : rows[i].node = NodeOf(server[k])

\* two groups of two processes under two nodes were printed, and the sort
\* has changed the order of one of them
C17_Witness ==
    /\ command = "processes" /\ pc = "returned" /\ lastQuery = "ok"
    /\ Len(server) = 2 /\ Len(s) = 5
    /\ s[2].node # s[4].node
    /\ \E k \in 1..2 : reply[k].Processes # server[k].Processes
    /\ stdout = <<SimpleFormat(s)>>

\* C18: a draw begins either as the session is entered or at the select by
\* taking one tick from the ticker; a draw reads the size and then makes
\* its one query, and whatever the query gives, the draw ends at the select
\* (or ends the process) without a second query; the loop begins when the
\* first draw has returned, and no case of the select is taken before.
C18_OneDrawThenOnePerTick ==
    [][/\ (pc # "draw" /\ pc' = "draw")
            => \/ pc = "start" /\ ~inLoop
               \/ pc = "select" /\ inLoop /\ ticker /\ ~ticker'
       /\ (pc # "query" /\ pc' = "query") => pc = "draw"
       /\ pc = "draw" => pc' \in {"draw", "query", "exited"}
       /\ pc = "query" => pc' \in {"query", "build", "select", "exited"}
       /\ pc = "build" => pc' \in {"build", "select", "panic"}
       /\ ~inLoop
            => /\ lastCase' = "none" /\ exitBy' = "none"
               /\ Len(uiEvents') >= Len(uiEvents)
               /\ pc' \notin {"select", "terminating"} \/ inLoop'
       /\ (~inLoop /\ inLoop') => (pc \in {"query", "build"} /\ pc' = "select")]_vars

\* the first draw has painted, the loop has taken a tick and the draw of
\* that tick has its query out
C18_Witness ==
    /\ watchProcesses /\ inLoop
    /\ pc = "query" /\ lastCase = "ticker"
    /\ screen # Blank
    /\ lastQuery = "ok"

\* a key that quits waits in the input stream
QuitDelivered ==
    \E i \in 1..Len(uiEvents) : uiEvents[i] \in {"q", "<C-c>"}

\* C19: in a session whose draws return and whose select is fair to the
\* ready cases, a key that quits waiting in the input stream, or the
\* cancellation, leads to the end of the loop, however often the ticker
\* sends a tick.
C19_QuitOrCancelEndsTheLoop ==
    (watchProcesses /\ (QuitDelivered \/ cancelled))
        ~> (pc \in Final \cup {"terminating"})

\* the loop took the key that quits after it had drawn for a tick, and Run
\* has returned
C19_Witness ==
    /\ watchProcesses /\ pc = "returned"
    /\ inLoop /\ exitBy = "quit" /\ lastCase = "quit"
    /\ ticker /\ ~cancelled

\* C20: whatever the Executable, Args and Command of a process, the pass
\* of the loop that builds its row completes: processesOutput does not
\* panic, and the report it returns has a row for every process of the
\* reply.
C20_EveryRecordGetsItsRow ==
    /\ pc \notin {"panic", "crashed"}
    /\ (pc = "returned" /\ lastQuery = "ok")
          => Len(s) = 1 + CountProcesses(server)

====
